---- MODULE Spec2Model ----
(***************************************************************************)
(* Model of the wealth projection engine: models.py (Asset, Liability),    *)
(* logic.py (calculate_progressive_tax, run_simulation).                   *)
(*                                                                         *)
(* Python floats are modelled as exact rationals <<n, d>> in lowest terms  *)
(* with d > 0.  The pair <<0, 0>> stands for Python's None in a numeric    *)
(* field and <<1, 0>> for a value float() cannot parse.                    *)
(***************************************************************************)
EXTENDS Integers, Sequences, FiniteSets, TLC

VARIABLES
    portfolio_data,     \* caller's list of asset/liability records
    life_events_data,   \* caller's list of life-event records
    user_age,           \* argument user_age
    years_to_project,   \* argument years_to_project
    simulation_params,  \* caller's parameter mapping
    today,              \* calendar year the system clock shows
    pc,                 \* position of the run
    sim_objects,        \* entities created inside the run
    year,               \* loop index of the year loop
    current_year,       \* calendar year of the row being built
    ev_i,               \* index of the life event the event loop is at
    tier_i,             \* index of the tier being drained (0: no event being funded)
    item_i,             \* index of the item the tier loop is at
    future_cost,        \* inflated cost of the event being funded
    remaining_cost,     \* unmet cost of the event being funded
    ev_before,          \* sim_objects as they were when the event began
    gross_swr_base,     \* withdrawal base of the last simulated year
    swr_part,           \* what each item added to gross_swr_base that year
    data,               \* rows emitted so far
    run_no,             \* number of the run (1 or 2)
    first_data,         \* rows returned by the first run
    first_today,        \* calendar year read by the first run
    call_income,        \* argument income of calculate_progressive_tax
    call_filing_status, \* argument filing_status of calculate_progressive_tax
    call_tax,           \* value returned by calculate_progressive_tax
    self_old,           \* the entity as it was when its method was called
    loop_count          \* iterations of the pay-down loop made in this call

vars == <<portfolio_data, life_events_data, user_age, years_to_project,
          simulation_params, today, pc, sim_objects, year, current_year,
          ev_i, tier_i, item_i, future_cost, remaining_cost, ev_before,
          gross_swr_base, swr_part, data, run_no, first_data, first_today,
          call_income, call_filing_status, call_tax, self_old, loop_count>>

\* what a single call of a function or method works on
call_vars == <<call_income, call_filing_status, call_tax, self_old, loop_count>>

----------------------------------------------------------------------------
(* Exact rational arithmetic standing for float arithmetic.                *)

Abs(n) == IF n < 0 THEN -n ELSE n

RECURSIVE GCD(_, _)
GCD(a, b) == IF b = 0 THEN a ELSE GCD(b, a % b)

Rat(n, d) ==
    LET s == IF d < 0 THEN -1 ELSE 1
        g == GCD(Abs(n), Abs(d))
    IN  <<(s * n) \div g, (s * d) \div g>>

Int2R(n) == <<n, 1>>
Zero == <<0, 1>>
One == <<1, 1>>

RMul(a, b) ==
    LET g1 == GCD(Abs(a[1]), b[2])
        g2 == GCD(Abs(b[1]), a[2])
    IN  IF a[1] = 0 \/ b[1] = 0 THEN Zero
        ELSE <<(a[1] \div g1) * (b[1] \div g2), (a[2] \div g2) * (b[2] \div g1)>>

RAdd(a, b) ==
    LET g == GCD(a[2], b[2])
    IN  Rat(a[1] * (b[2] \div g) + b[1] * (a[2] \div g), (a[2] \div g) * b[2])

RNeg(a) == <<-a[1], a[2]>>
RSub(a, b) == RAdd(a, RNeg(b))
RDiv(a, b) == RMul(a, IF b[1] < 0 THEN <<-b[2], -b[1]>> ELSE <<b[2], b[1]>>)

RSign(a) == IF a[1] > 0 THEN 1 ELSE IF a[1] < 0 THEN -1 ELSE 0
RLt(a, b) == RSign(RSub(a, b)) < 0
RLe(a, b) == RSign(RSub(a, b)) <= 0
RGt(a, b) == RLt(b, a)
RGe(a, b) == RLe(b, a)
RMin(a, b) == IF RLe(a, b) THEN a ELSE b
RMax(a, b) == IF RGe(a, b) THEN a ELSE b

RECURSIVE RPow(_, _)
RPow(a, k) == IF k = 0 THEN One ELSE RMul(a, RPow(a, k - 1))

RECURSIVE RSum(_)
RSum(s) == IF s = <<>> THEN Zero ELSE RAdd(Head(s), RSum(Tail(s)))

----------------------------------------------------------------------------
(* models.py                                                               *)

Asset(name, balance, annual_contribution, annual_growth_rate, tax_status, category) ==
    [kind |-> "Asset", name |-> name, balance |-> balance,
     annual_contribution |-> annual_contribution,
     annual_growth_rate |-> annual_growth_rate,
     tax_status |-> tax_status, category |-> category]

Liability(name, balance, annual_interest_rate, monthly_payment) ==
    [kind |-> "Liability", name |-> name, balance |-> balance,
     annual_interest_rate |-> annual_interest_rate,
     monthly_payment |-> monthly_payment, category |-> "Debt"]

\* faulty variant: growth is computed after the contribution has been added
project_year_contribution_first(self, contribution_growth_rate) ==
    LET contribution == RMul(self.annual_contribution, RAdd(One, contribution_growth_rate))
        growth == RMul(RAdd(self.balance, contribution), self.annual_growth_rate)
    IN  [self EXCEPT !.annual_contribution = contribution,
                     !.balance = RAdd(self.balance, RAdd(growth, contribution))]

project_year(self, contribution_growth_rate) ==
    LET growth == RMul(self.balance, self.annual_growth_rate)
        contribution == RMul(self.annual_contribution, RAdd(One, contribution_growth_rate))
    IN  [self EXCEPT !.annual_contribution = contribution,
                     !.balance = RAdd(self.balance, RAdd(growth, contribution))]

\* withdraw returns the amount actually removed and updates the balance
withdraw(self, amount) ==
    IF RGe(self.balance, amount)
    THEN [self |-> [self EXCEPT !.balance = RSub(self.balance, amount)], ret |-> amount]
    ELSE [self |-> [self EXCEPT !.balance = Zero], ret |-> self.balance]

MonthsPerYear == 12

RECURSIVE pay_down_months(_, _, _, _)
pay_down_months(balance, annual_interest_rate, monthly_payment, months) ==
    IF months = 0 \/ RLe(balance, Zero) THEN balance
    ELSE LET interest == RMul(balance, RDiv(annual_interest_rate, Int2R(MonthsPerYear)))
         IN  pay_down_months(RSub(RAdd(balance, interest), monthly_payment),
                             annual_interest_rate, monthly_payment, months - 1)

pay_down_year(self) ==
    LET b == pay_down_months(self.balance, self.annual_interest_rate,
                             self.monthly_payment, MonthsPerYear)
    IN  [self EXCEPT !.balance = IF RLt(b, Zero) THEN Zero ELSE b]

----------------------------------------------------------------------------
(* logic.py: calculate_progressive_tax                                     *)

Pct(n) == Rat(n, 100)

SingleDeduction == 14600
JointDeduction == 29200
TopRatePct == 37

SingleBrackets ==
    << <<10, 11600>>, <<12, 47150>>, <<22, 100525>>, <<24, 191950>>,
       <<32, 243725>>, <<35, 609350>> >>
JointBrackets ==
    << <<10, 23200>>, <<12, 94300>>, <<22, 201050>>, <<24, 383900>>,
       <<32, 487450>>, <<35, 731200>> >>

RECURSIVE bracket_walk(_, _, _, _)
bracket_walk(brackets, taxable_income, previous_limit, tax) ==
    IF brackets = <<>>
    THEN RAdd(tax, RMul(RSub(taxable_income, previous_limit), Pct(TopRatePct)))
    ELSE LET rate == Pct(Head(brackets)[1])
             limit == Int2R(Head(brackets)[2])
         IN  IF RGt(taxable_income, limit)
             THEN bracket_walk(Tail(brackets), taxable_income, limit,
                               RAdd(tax, RMul(RSub(limit, previous_limit), rate)))
             ELSE RAdd(tax, RMul(RSub(taxable_income, previous_limit), rate))

\* faulty variant: the standard deduction is not subtracted
calculate_progressive_tax_no_deduction(income, filing_status) ==
    IF RLe(income, Zero) THEN Zero
    ELSE LET brackets == IF filing_status = "Single" THEN SingleBrackets ELSE JointBrackets
         IN  bracket_walk(brackets, income, Zero, Zero)

calculate_progressive_tax(income, filing_status) ==
    IF RLe(income, Zero) THEN Zero
    ELSE LET std_deduction == IF filing_status = "Single"
                              THEN SingleDeduction ELSE JointDeduction
             taxable_income == RMax(Zero, RSub(income, Int2R(std_deduction)))
             brackets == IF filing_status = "Single" THEN SingleBrackets ELSE JointBrackets
         IN  bracket_walk(brackets, taxable_income, Zero, Zero)

----------------------------------------------------------------------------
(* Python values and dictionary lookups                                    *)

NoneNum == <<0, 0>>        \* None where a number is expected
BadNum == <<1, 0>>         \* a string float() cannot parse
NoneStr == "None"          \* None where a string is expected

TruthyNum(v) == v # NoneNum /\ v # Zero
TruthyStr(v) == v # NoneStr /\ v # ""

\* a or b
OrNum(a, b) == IF TruthyNum(a) THEN a ELSE b
OrStr(a, b) == IF TruthyStr(a) THEN a ELSE b

\* float(v) raises TypeError on None and ValueError on an unparseable string
FloatOk(v) == v[2] # 0
FloatError(v) == IF v = NoneNum THEN "TypeError" ELSE "ValueError"

\* The two record layouts callers use: lower-case keys (app.py) and the
\* capitalised keys of the stored document (storage.py).
OldRecord(name, category, balance, monthly, rate, tax) ==
    [name |-> name, Name |-> NoneStr, category |-> category, Category |-> NoneStr,
     balance |-> balance, Balance |-> NoneNum, monthly |-> monthly, Monthly |-> NoneNum,
     rate |-> rate, Rate |-> NoneNum, tax |-> tax, Tax_Type |-> NoneStr]

NewRecord(name, category, balance, monthly, rate, tax) ==
    [name |-> NoneStr, Name |-> name, category |-> NoneStr, Category |-> category,
     balance |-> NoneNum, Balance |-> balance, monthly |-> NoneNum, Monthly |-> monthly,
     rate |-> NoneNum, Rate |-> rate, tax |-> NoneStr, Tax_Type |-> tax]

OldEvent(name, age, cost) ==
    [name |-> name, Event_Name |-> NoneStr, age |-> age, Age |-> NoneNum,
     cost |-> cost, Cost |-> NoneNum]

NewEvent(name, age, cost) ==
    [name |-> NoneStr, Event_Name |-> name, age |-> NoneNum, Age |-> age,
     cost |-> NoneNum, Cost |-> cost]

----------------------------------------------------------------------------
(* logic.py: run_simulation, entity construction                           *)

rec_name(p) == OrStr(p.name, p.Name)
rec_cat(p) == OrStr(p.category, p.Category)
rec_bal(p) == OrNum(p.balance, p.Balance)
rec_monthly(p) == OrNum(p.monthly, p.Monthly)
rec_rate(p) == OrNum(p.rate, p.Rate)
rec_tax(p) == OrStr(p.tax, p.Tax_Type)

RecordOk(p) == FloatOk(rec_bal(p)) /\ FloatOk(rec_rate(p)) /\ FloatOk(rec_monthly(p))

make_entity(p) ==
    IF rec_cat(p) = "Debt/Liability"
    THEN Liability(rec_name(p), rec_bal(p), rec_rate(p), rec_monthly(p))
    ELSE Asset(rec_name(p), rec_bal(p), RMul(rec_monthly(p), Int2R(MonthsPerYear)),
               rec_rate(p), rec_tax(p), rec_cat(p))

make_sim_objects(records) == [i \in 1..Len(records) |-> make_entity(records[i])]

TerminalAge == 85
\* faulty variant: the loop runs for the requested display window
max_projection_years_requested == years_to_project

max_projection_years == TerminalAge - user_age

ResetLocals ==
    /\ year' = 0
    /\ ev_i' = 1
    /\ tier_i' = 0
    /\ item_i' = 1
    /\ future_cost' = Zero
    /\ remaining_cost' = Zero
    /\ ev_before' = <<>>
    /\ gross_swr_base' = Zero
    /\ swr_part' = <<>>
    /\ data' = <<>>

\* faulty variant: entities left by an earlier run are used again
ConstructShared ==
    /\ pc = "start"
    /\ ResetLocals
    /\ current_year' = today
    /\ IF \A i \in 1..Len(portfolio_data) : RecordOk(portfolio_data[i])
       THEN /\ sim_objects' = IF sim_objects # <<>> THEN sim_objects
                              ELSE make_sim_objects(portfolio_data)
            /\ pc' = IF max_projection_years + 1 > 0 THEN "life_events" ELSE "done"
       ELSE /\ sim_objects' = <<>>
            /\ pc' = "error"
    /\ UNCHANGED <<portfolio_data, life_events_data, user_age, years_to_project,
                   simulation_params, today, run_no, first_data, first_today>>
    /\ UNCHANGED call_vars

\* Lines 43-93: read the clock, unpack the parameters, build the entities.
\* float() of a missing or unparseable field raises here.
Construct ==
    /\ pc = "start"
    /\ ResetLocals
    /\ current_year' = today
    /\ IF \A i \in 1..Len(portfolio_data) : RecordOk(portfolio_data[i])
       THEN /\ sim_objects' = make_sim_objects(portfolio_data)
            /\ pc' = IF max_projection_years + 1 > 0 THEN "life_events" ELSE "done"
       ELSE /\ sim_objects' = <<>>
            /\ pc' = "error"
    /\ UNCHANGED <<portfolio_data, life_events_data, user_age, years_to_project,
                   simulation_params, today, run_no, first_data, first_today>>
    /\ UNCHANGED call_vars

----------------------------------------------------------------------------
(* logic.py: run_simulation, A. life events                                *)

ev_age(ev) == OrNum(ev.age, ev.Age)
ev_cost(ev) == OrNum(ev.cost, ev.Cost)

current_age == user_age + year

Fires(ev) == ev_age(ev) = Int2R(current_age)

\* index of the first event at or after i whose age is the current age, 0 if none
NextFiring(i) ==
    LET S == {j \in i..Len(life_events_data) : Fires(life_events_data[j])}
    IN  IF S = {} THEN 0 ELSE CHOOSE j \in S : \A k \in S : j <= k

\* faulty variant: the Roth tier is drained first
TiersRothFirst == << {"Roth"}, {"Cash", "Taxable"}, {"Pre-Tax"} >>

Tiers == << {"Cash", "Taxable"}, {"Roth"}, {"Pre-Tax"} >>

\* the test of lines 110-113, without the remaining_cost part
Matches(t, item) ==
    /\ item.kind = "Asset"
    /\ LET is_cash == (t = 1 /\ item.category = "Cash")
           is_tax_match == (item.tax_status \in Tiers[t])
       IN  is_cash \/ is_tax_match

\* Position of (tier t, item k) in the order the two nested loops visit them.
Pos(t, k) == (t - 1) * Len(sim_objects) + k
PosTier(q) == ((q - 1) \div Len(sim_objects)) + 1
PosItem(q) == ((q - 1) % Len(sim_objects)) + 1

\* first position at or after (tier_i, item_i) whose item the tier selects, 0 if none
NextMatch ==
    LET n == Len(sim_objects)
        S == {q \in Pos(tier_i, item_i)..(Len(Tiers) * n) :
                 Matches(PosTier(q), sim_objects[PosItem(q)])}
    IN  IF n = 0 \/ S = {} THEN 0 ELSE CHOOSE q \in S : \A r \in S : q <= r

inflation_factor == RPow(RAdd(One, simulation_params.inflation_rate), year)

\* Lines 100-107: the next event due this year starts being funded; float()
\* of its cost raises when the cost is missing or unparseable.
LifeEventBegin ==
    /\ pc = "life_events"
    /\ tier_i = 0
    /\ NextFiring(ev_i) # 0
    /\ LET j == NextFiring(ev_i)
           c == ev_cost(life_events_data[j])
       IN  IF FloatOk(c)
           THEN /\ future_cost' = RMul(c, inflation_factor)
                /\ remaining_cost' = RMul(c, inflation_factor)
                /\ ev_i' = j
                /\ tier_i' = 1
                /\ item_i' = 1
                /\ ev_before' = sim_objects
                /\ pc' = pc
           ELSE /\ pc' = "error"
                /\ UNCHANGED <<future_cost, remaining_cost, ev_i, tier_i, item_i, ev_before>>
    /\ UNCHANGED <<portfolio_data, life_events_data, user_age, years_to_project,
                   simulation_params, today, sim_objects, year, current_year,
                   gross_swr_base, swr_part, data, run_no, first_data, first_today>>
    /\ UNCHANGED call_vars

\* faulty variant: the withdrawal is also written into the caller's record
WithdrawStepInPlace ==
    /\ pc = "life_events"
    /\ tier_i >= 1
    /\ RGt(remaining_cost, Zero)
    /\ NextMatch # 0
    /\ LET t == PosTier(NextMatch)
           k == PosItem(NextMatch)
           w == withdraw(sim_objects[k], remaining_cost)
       IN  /\ sim_objects' = [sim_objects EXCEPT ![k] = w.self]
           /\ portfolio_data' =
                 IF TruthyNum(portfolio_data[k].balance)
                 THEN [portfolio_data EXCEPT ![k].balance = w.self.balance]
                 ELSE [portfolio_data EXCEPT ![k].Balance = w.self.balance]
           /\ remaining_cost' = RSub(remaining_cost, w.ret)
           /\ tier_i' = t
           /\ item_i' = k + 1
    /\ UNCHANGED <<life_events_data, user_age, years_to_project,
                   simulation_params, today, pc, year, current_year, ev_i, future_cost,
                   ev_before, gross_swr_base, swr_part, data, run_no, first_data,
                   first_today>>
    /\ UNCHANGED call_vars

\* Lines 108-114: one call of item.withdraw(remaining_cost), on the next item
\* the tier loops reach that passes the test.
WithdrawStep ==
    /\ pc = "life_events"
    /\ tier_i >= 1
    /\ RGt(remaining_cost, Zero)
    /\ NextMatch # 0
    /\ LET t == PosTier(NextMatch)
           k == PosItem(NextMatch)
           w == withdraw(sim_objects[k], remaining_cost)
       IN  /\ sim_objects' = [sim_objects EXCEPT ![k] = w.self]
           /\ remaining_cost' = RSub(remaining_cost, w.ret)
           /\ tier_i' = t
           /\ item_i' = k + 1
    /\ UNCHANGED <<portfolio_data, life_events_data, user_age, years_to_project,
                   simulation_params, today, pc, year, current_year, ev_i, future_cost,
                   ev_before, gross_swr_base, swr_part, data, run_no, first_data,
                   first_today>>
    /\ UNCHANGED call_vars

\* The tier loops end: the cost is met or no tier has an item left to visit.
LifeEventEnd ==
    /\ pc = "life_events"
    /\ tier_i >= 1
    /\ ~RGt(remaining_cost, Zero) \/ NextMatch = 0
    /\ tier_i' = 0
    /\ item_i' = 1
    /\ ev_i' = ev_i + 1
    /\ UNCHANGED <<portfolio_data, life_events_data, user_age, years_to_project,
                   simulation_params, today, pc, sim_objects, year, current_year,
                   future_cost, remaining_cost, ev_before, gross_swr_base, swr_part,
                   data, run_no, first_data, first_today>>
    /\ UNCHANGED call_vars

----------------------------------------------------------------------------
(* logic.py: run_simulation, B-D. annual simulation and row emission       *)

can_access_retirement == current_age >= simulation_params.retirement_age

\* faulty variant: the retirement age is not consulted
swr_eligible_any(item, can_access) == TRUE

\* the test of lines 128 and 149
swr_eligible(item, can_access) ==
    item.tax_status \in {"Taxable", "Roth", "Cash"} \/ can_access

\* faulty variant: growth and amortization are applied in year 0 as well
advance_every_year(item, yr, contrib_growth) ==
    IF item.kind = "Asset" THEN project_year(item, contrib_growth)
    ELSE pay_down_year(item)

\* line 123 / line 131: the entity after this year's update
advance(item, yr, contrib_growth) ==
    IF yr = 0 THEN item
    ELSE IF item.kind = "Asset" THEN project_year(item, contrib_growth)
    ELSE pay_down_year(item)

real_val(item, factor) == RDiv(item.balance, factor)

\* what the item adds to total_assets_gross and stores under row[item.name]
signed_val(item, factor) ==
    IF item.kind = "Asset" THEN real_val(item, factor) ELSE RNeg(real_val(item, factor))

\* what the item adds to gross_swr_base
swr_share(item, factor, can_access) ==
    IF item.kind = "Asset" /\ swr_eligible(item, can_access)
    THEN real_val(item, factor) ELSE Zero

net_income(gross_passive_income, params) ==
    IF params.use_progressive
    THEN RSub(gross_passive_income,
              calculate_progressive_tax(gross_passive_income, params.filing_status))
    ELSE RMul(gross_passive_income, RSub(One, params.tax_flat_rate))

\* a dictionary written once per item in list order keeps the last value written
LastNamed(objs, nm) ==
    CHOOSE i \in 1..Len(objs) :
        objs[i].name = nm /\ \A j \in (i + 1)..Len(objs) : objs[j].name # nm

balance_columns(objs, factor) ==
    [nm \in {objs[i].name : i \in 1..Len(objs)} |->
        signed_val(objs[LastNamed(objs, nm)], factor)]

\* faulty variant: income is attributed to every asset, eligible or not
income_columns_all(objs, bal, base, net, can_access) ==
    IF RGt(base, Zero)
    THEN [nm \in {objs[i].name : i \in 1..Len(objs)} |->
            LET item == objs[LastNamed(objs, nm)]
            IN  IF item.kind = "Asset"
                THEN RMul(net, RDiv(bal[nm], base))
                ELSE Zero]
    ELSE [nm \in {objs[i].name : i \in {j \in 1..Len(objs) : objs[j].kind = "Asset"}} |->
            Zero]

\* lines 146-156; the key nm stands for the column "<nm> Income"
income_columns(objs, bal, base, net, can_access) ==
    IF RGt(base, Zero)
    THEN [nm \in {objs[i].name : i \in 1..Len(objs)} |->
            LET item == objs[LastNamed(objs, nm)]
            IN  IF item.kind = "Asset" /\ swr_eligible(item, can_access)
                THEN RMul(net, RDiv(bal[nm], base))
                ELSE Zero]
    ELSE [nm \in {objs[i].name : i \in {j \in 1..Len(objs) : objs[j].kind = "Asset"}} |->
            Zero]

\* Lines 116-163: every entity is advanced, the year's row is computed and
\* appended, and the loop moves on to the next year or ends.
AnnualSimulation ==
    /\ pc = "life_events"
    /\ tier_i = 0
    /\ NextFiring(ev_i) = 0
    /\ LET objs == [i \in 1..Len(sim_objects) |->
                       advance(sim_objects[i], year, simulation_params.contrib_growth)]
           factor == inflation_factor
           parts == [i \in 1..Len(objs) |-> swr_share(objs[i], factor, can_access_retirement)]
           base == RSum(parts)
           total_assets_gross == RSum([i \in 1..Len(objs) |-> signed_val(objs[i], factor)])
           gross_passive_income == RMul(base, simulation_params.swr)
           net_passive_income == net_income(gross_passive_income, simulation_params)
           bal == balance_columns(objs, factor)
           row == [Year |-> current_year, Age |-> current_age,
                   bal |-> bal,
                   inc |-> income_columns(objs, bal, base, net_passive_income,
                                          can_access_retirement),
                   Net_Worth |-> total_assets_gross,
                   Passive_Income |-> net_passive_income,
                   Annual_Spending |-> simulation_params.annual_spend]
       IN  /\ sim_objects' = objs
           /\ swr_part' = parts
           /\ gross_swr_base' = base
           /\ data' = Append(data, row)
    /\ current_year' = current_year + 1
    /\ year' = year + 1
    /\ ev_i' = 1
    /\ pc' = IF year + 1 < max_projection_years + 1 THEN "life_events" ELSE "done"
    /\ UNCHANGED <<portfolio_data, life_events_data, user_age, years_to_project,
                   simulation_params, today, tier_i, item_i, future_cost, remaining_cost,
                   ev_before, run_no, first_data, first_today>>
    /\ UNCHANGED call_vars

----------------------------------------------------------------------------
(* Inputs                                                                  *)

MaxEntities == 2           \* longest portfolio
FirstYear == 2024          \* calendar year the clock starts at
MaxTicks == 1              \* how many times the calendar year may change

EntityNames == <<"e1", "e2", "e3", "e4">>

ArchIds == {"savings", "cash_roth", "roth_ira", "k401", "crash", "car_loan",
            "no_name", "no_balance"}
\* records whose balances stay small over the long horizon
FlatArchIds == {"savings", "car_loan", "no_name"}
\* records large enough for the progressive tax to be owed
RichArchIds == {"rich_roth", "rich_401k"}
\* records with numeric fields that are exactly 0, in both key spellings
ZeroArchIds == {"zero_new", "zero_old", "zero_old_loan", "savings"}

Archetype(id, nm) ==
    CASE id = "savings"    -> NewRecord(nm, "Cash", Int2R(100), Zero, Zero, "N/A")
      [] id = "cash_roth"  -> OldRecord(nm, "Cash", Int2R(400), One, Rat(1, 2), "Roth")
      [] id = "roth_ira"   -> OldRecord(nm, "Stock Market", Int2R(200), One, Rat(-1, 2),
                                        "Roth")
      [] id = "k401"       -> NewRecord(nm, "Stock Market", Int2R(500), One, One, "Pre-Tax")
      [] id = "crash"      -> NewRecord(nm, "Crypto", Int2R(100), Zero, Int2R(-2), "Taxable")
      [] id = "car_loan"   -> NewRecord(nm, "Debt/Liability", Int2R(1000), Int2R(500),
                                        Rat(12, 100), "N/A")
      [] id = "no_name"    -> NewRecord(NoneStr, "Stock Market", Int2R(300), Zero, Zero,
                                        "Taxable")
      [] id = "no_balance" -> NewRecord(nm, "Stock Market", NoneNum, One, One, "Taxable")
      [] id = "rich_roth"  -> NewRecord(nm, "Stock Market", Int2R(500000), Zero, Zero,
                                        "Roth")
      [] id = "rich_401k"  -> NewRecord(nm, "Stock Market", Int2R(250000), Zero, Zero,
                                        "Pre-Tax")
      [] id = "zero_new"   -> NewRecord(nm, "Stock Market", Zero, Zero, Zero, "Taxable")
      [] id = "zero_old"   -> OldRecord(nm, "Stock Market", Int2R(100), Zero, Rat(1, 2),
                                        "Taxable")
      [] id = "zero_old_loan" -> OldRecord(nm, "Debt/Liability", Int2R(1000), Int2R(500),
                                           Zero, "N/A")

PortfoliosOver(ids) ==
    UNION {{[i \in 1..k |-> Archetype(f[i], EntityNames[i])] : f \in [1..k -> ids]} :
           k \in 1..MaxEntities}

EvCar == OldEvent("Car", Int2R(85), Int2R(70))
EvHouse == NewEvent("House", Int2R(84), Int2R(1000000))
EvTrip == NewEvent("Trip", Int2R(85), NoneNum)
EvEarly == OldEvent("Early", Int2R(31), Int2R(1000000))
EvFreeOld == OldEvent("Free", Int2R(84), Zero)
EvFreeNew == NewEvent("Gift", Int2R(84), Zero)

LifeEventLists == { <<>>, <<EvCar>>, <<EvHouse>>, <<EvTrip>>, <<EvEarly>>,
                    <<EvCar, EvHouse>> }

\* (user_age, years_to_project) pairs
ShortArgs == { <<83, 1>>, <<84, 5>>, <<85, 1>> }
LongArgs == { <<30, 5>> }

Params(inflation_rate, contrib_growth, use_progressive, retirement_age) ==
    [annual_spend |-> Int2R(60000), swr |-> Rat(1, 25),
     inflation_rate |-> inflation_rate, contrib_growth |-> contrib_growth,
     filing_status |-> "Single", use_progressive |-> use_progressive,
     tax_flat_rate |-> Rat(15, 100), retirement_age |-> retirement_age]

ShortParams == { Params(Zero, Rat(1, 2), TRUE, 85), Params(Rat(1, 4), Rat(1, 2), TRUE, 85),
                 Params(Rat(1, 4), Rat(1, 2), FALSE, 85) }
\* no compounding over the long horizon, so that the numbers stay small
LongParams == { Params(Zero, Zero, TRUE, 65) }

InitRun ==
    /\ \/ /\ \E a \in ShortArgs : user_age = a[1] /\ years_to_project = a[2]
          /\ simulation_params \in ShortParams
          /\ portfolio_data \in PortfoliosOver(ArchIds)
          /\ life_events_data \in LifeEventLists
       \/ /\ \E a \in ShortArgs : user_age = a[1] /\ years_to_project = a[2]
          /\ simulation_params \in ShortParams
          /\ portfolio_data \in PortfoliosOver(RichArchIds)
          /\ life_events_data \in {<<>>, <<EvHouse>>}
       \/ /\ \E a \in LongArgs : user_age = a[1] /\ years_to_project = a[2]
          /\ simulation_params \in LongParams
          /\ portfolio_data \in PortfoliosOver(FlatArchIds)
          /\ life_events_data \in {<<>>, <<EvEarly>>}
       \/ /\ \E a \in ShortArgs : user_age = a[1] /\ years_to_project = a[2]
          /\ simulation_params \in ShortParams
          /\ portfolio_data \in PortfoliosOver(ZeroArchIds)
          /\ life_events_data \in {<<>>, <<EvFreeOld>>, <<EvFreeNew>>}
    /\ today = FirstYear
    /\ pc = "start"
    /\ sim_objects = <<>>
    /\ year = 0
    /\ current_year = 0
    /\ ev_i = 1
    /\ tier_i = 0
    /\ item_i = 1
    /\ future_cost = Zero
    /\ remaining_cost = Zero
    /\ ev_before = <<>>
    /\ gross_swr_base = Zero
    /\ swr_part = <<>>
    /\ data = <<>>
    /\ run_no = 1
    /\ first_data = <<>>
    /\ first_today = 0
    /\ call_income = <<0, 1>>
    /\ call_filing_status = "Single"
    /\ call_tax = <<0, 1>>
    /\ self_old = <<>>
    /\ loop_count = 0

Init == InitRun

Next ==
    \/ Construct
    \/ LifeEventBegin
    \/ WithdrawStep
    \/ LifeEventEnd
    \/ AnnualSimulation

Spec == Init /\ [][Next]_vars

----------------------------------------------------------------------------
(* Two runs on the same inputs (app.py: every interaction runs the         *)
(* simulation again, and a saved baseline is compared with a later run)    *)

\* the system clock passes into the next calendar year between two runs
Tick ==
    /\ pc = "done"
    /\ run_no = 1
    /\ today < FirstYear + MaxTicks
    /\ today' = today + 1
    /\ UNCHANGED <<portfolio_data, life_events_data, user_age, years_to_project,
                   simulation_params, pc, sim_objects, year, current_year, ev_i, tier_i,
                   item_i, future_cost, remaining_cost, ev_before, gross_swr_base,
                   swr_part, data, run_no, first_data, first_today>>
    /\ UNCHANGED call_vars

\* the first result is kept and run_simulation is called again with the
\* same arguments
Rerun ==
    /\ pc = "done"
    /\ run_no = 1
    /\ first_data' = data
    /\ first_today' = current_year - year
    /\ run_no' = 2
    /\ pc' = "start"
    /\ UNCHANGED <<portfolio_data, life_events_data, user_age, years_to_project,
                   simulation_params, today, sim_objects, year, current_year, ev_i,
                   tier_i, item_i, future_cost, remaining_cost, ev_before,
                   gross_swr_base, swr_part, data>>
    /\ UNCHANGED call_vars

RerunArchIds == {"savings", "roth_ira", "k401", "car_loan"}

InitRerun ==
    /\ InitRun
    /\ portfolio_data \in PortfoliosOver(RerunArchIds)
    /\ life_events_data \in {<<>>, <<EvCar>>, <<EvHouse>>}

NextRerun == Next \/ Tick \/ Rerun

SpecRerun == InitRerun /\ [][NextRerun]_vars

----------------------------------------------------------------------------
(* Properties                                                              *)

IsAsset(i) == sim_objects[i].kind = "Asset"
Items == 1..Len(sim_objects)
Funding == pc = "life_events" /\ tier_i >= 1
\* every withdrawal of the event being funded has been made
EventExhausted == Funding /\ (~RGt(remaining_cost, Zero) \/ NextMatch = 0)
\* the state right after a row was appended
JustEmitted ==
    /\ pc \in {"life_events", "done"}
    /\ data # <<>>
    /\ Len(data) = year
    /\ tier_i = 0
    /\ ev_i = 1
LastRow == data[Len(data)]
NamesUnique ==
    \A i, j \in Items : sim_objects[i].name = sim_objects[j].name => i = j

\* C1: in every simulated year, after any sequence of withdrawals, growth
\* steps and amortization steps, every Asset balance and every Liability
\* balance is >= 0, whatever the (signed) growth rates are.
C1_NonNegative ==
    \A i \in Items : RGe(sim_objects[i].balance, Zero)

\* C2 as stated: while an event is funded, a Roth asset is reduced only if
\* every Cash-category or Taxable asset is at 0, a Pre-Tax asset only if every
\* Cash/Taxable and every Roth asset is at 0, and within a tier a later asset
\* only after the earlier ones of that tier are at 0.
CashOrTaxable(a) == a.kind = "Asset" /\ (a.category = "Cash" \/ a.tax_status = "Taxable")
IsRoth(a) == a.kind = "Asset" /\ a.tax_status = "Roth"
IsPreTax(a) == a.kind = "Asset" /\ a.tax_status = "Pre-Tax"
Reduced(i) == RLt(sim_objects[i].balance, ev_before[i].balance)
AtZero(j) == sim_objects[j].balance = Zero

C2_StatusOrder ==
    Funding =>
        \A i \in Items : Reduced(i) =>
            /\ IsRoth(sim_objects[i]) =>
                 \A j \in Items : CashOrTaxable(sim_objects[j]) => AtZero(j)
            /\ IsPreTax(sim_objects[i]) =>
                 \A j \in Items :
                    (CashOrTaxable(sim_objects[j]) \/ IsRoth(sim_objects[j])) => AtZero(j)
            /\ \A j \in 1..(i - 1) :
                  (\/ CashOrTaxable(sim_objects[i]) /\ CashOrTaxable(sim_objects[j])
                   \/ IsRoth(sim_objects[i]) /\ IsRoth(sim_objects[j])
                   \/ IsPreTax(sim_objects[i]) /\ IsPreTax(sim_objects[j]))
                  => AtZero(j)

\* C2 as amended: an asset belongs to the first tier that selects it (a Cash
\* category asset to the first tier whatever its tax status); while an event
\* is funded an asset's balance changes only if every asset of an earlier tier
\* and every earlier-configured asset of its own tier is at 0, and an entity
\* no tier selects never changes.
TierOf(a) ==
    IF a.kind # "Asset" THEN 0
    ELSE IF a.category = "Cash" \/ a.tax_status \in {"Cash", "Taxable"} THEN 1
    ELSE IF a.tax_status = "Roth" THEN 2
    ELSE IF a.tax_status = "Pre-Tax" THEN 3
    ELSE 0

C2_TierOrder ==
    Funding =>
        \A i \in Items : sim_objects[i].balance # ev_before[i].balance =>
            /\ TierOf(sim_objects[i]) # 0
            /\ \A j \in Items :
                  /\ TierOf(sim_objects[j]) # 0
                  /\ \/ TierOf(sim_objects[j]) < TierOf(sim_objects[i])
                     \/ TierOf(sim_objects[j]) = TierOf(sim_objects[i]) /\ j < i
                  => AtZero(j)

\* a Roth asset outside the first tier has been drawn on after a first-tier
\* asset with money in it was emptied
C2_Witness ==
    /\ Funding
    /\ \E i, j \in Items :
          /\ TierOf(sim_objects[i]) = 2
          /\ Reduced(i)
          /\ TierOf(sim_objects[j]) = 1
          /\ RGt(ev_before[j].balance, Zero)
          /\ AtZero(j)

\* C3: when an event's withdrawals are over, the total removed from asset
\* balances equals min(inflated cost, sum of the balances of the assets some
\* tier selects); a shortfall is dropped: no balance is negative and no
\* liability has changed.
InSomeTier(a) ==
    a.kind = "Asset" /\ (a.category = "Cash" \/ a.tax_status \in {"Taxable", "Roth", "Pre-Tax"})

C3_RemovedIsMin ==
    EventExhausted =>
        LET removed == RSum([i \in Items |->
                            RSub(ev_before[i].balance, sim_objects[i].balance)])
            eligible == RSum([i \in Items |->
                            IF InSomeTier(ev_before[i]) THEN ev_before[i].balance ELSE Zero])
        IN  /\ removed = RMin(future_cost, eligible)
            /\ \A i \in Items :
                  RGe(ev_before[i].balance, Zero) => RGe(sim_objects[i].balance, Zero)
            /\ \A i \in Items : ~IsAsset(i) => sim_objects[i] = ev_before[i]

\* C4: a Pre-Tax asset adds 0 to the withdrawal base and gets 0 income in a
\* year whose age is below the retirement age, and adds its full real value
\* balance/(1+inflation)^y in a year whose age has reached it.
C4_PreTaxGate ==
    JustEmitted =>
        \A i \in Items : IsPreTax(sim_objects[i]) =>
            IF LastRow.Age < simulation_params.retirement_age
            THEN /\ swr_part[i] = Zero
                 /\ LastRow.inc[sim_objects[i].name] = Zero
            ELSE swr_part[i] =
                    RDiv(sim_objects[i].balance,
                         RPow(RAdd(One, simulation_params.inflation_rate), year - 1))

\* a Pre-Tax asset with money in it was left out of the base last year and
\* is counted this year
C4_Witness ==
    /\ JustEmitted
    /\ Len(data) >= 2
    /\ \E i \in Items :
          /\ IsPreTax(sim_objects[i])
          /\ RGt(data[Len(data) - 1].bal[sim_objects[i].name], Zero)
          /\ data[Len(data) - 1].inc[sim_objects[i].name] = Zero
          /\ data[Len(data) - 1].Age < simulation_params.retirement_age
          /\ RGt(swr_part[i], Zero)
          /\ RGt(LastRow.inc[sim_objects[i].name], Zero)

\* C5: in every year a Cash-category asset counts its full real value in the
\* withdrawal base, whatever its tax status.
C5_CashAlwaysCounts ==
    JustEmitted =>
        \A i \in Items :
            (IsAsset(i) /\ sim_objects[i].category = "Cash") =>
                swr_part[i] =
                    RDiv(sim_objects[i].balance,
                         RPow(RAdd(One, simulation_params.inflation_rate), year - 1))

\* C6: in a row whose withdrawal base is > 0, the attributed incomes of the
\* configured assets add up to the row's net passive income, given unique
\* entity names.
C6_IncomeConserved ==
    (JustEmitted /\ RGt(gross_swr_base, Zero) /\ NamesUnique) =>
        RSum([i \in Items |->
                IF IsAsset(i) THEN LastRow.inc[sim_objects[i].name] ELSE Zero])
            = LastRow.Passive_Income

\* two assets share a positive income and a third entity gets none
C6_Witness ==
    /\ JustEmitted
    /\ RGt(gross_swr_base, Zero)
    /\ NamesUnique
    /\ \E i, j \in Items :
          /\ i # j
          /\ IsAsset(i) /\ RGt(LastRow.inc[sim_objects[i].name], Zero)
          /\ IsAsset(j) /\ RGt(LastRow.inc[sim_objects[j].name], Zero)
          /\ RLt(LastRow.Passive_Income, RMul(gross_swr_base, simulation_params.swr))

\* C7: a run that returns has emitted 85 - startAge + 1 rows, with Age running
\* startAge..85 and Year rising by one per row, whatever years_to_project is
\* and even when every asset has been emptied.
C7_FullHorizon ==
    pc = "done" =>
        /\ Len(data) = 85 - user_age + 1
        /\ \A k \in 1..Len(data) :
              /\ data[k].Age = user_age + k - 1
              /\ data[k].Year = data[1].Year + k - 1

\* the 56-row run from age 30 whose assets were emptied at age 31
C7_Witness ==
    /\ pc = "done"
    /\ user_age = 30
    /\ Len(data) = 56
    /\ years_to_project = 5
    /\ \E i \in Items : IsAsset(i) /\ RGt(data[1].bal[sim_objects[i].name], Zero)
    /\ \A i \in Items : IsAsset(i) => sim_objects[i].balance = Zero
    /\ data[3].Net_Worth = data[56].Net_Worth

\* C9: a run either returns or fails on a malformed record before any year
\* has been simulated, and a record with a missing field is never simulated.
FieldsPresent(p) ==
    /\ rec_name(p) # NoneStr
    /\ rec_bal(p) # NoneNum
    /\ rec_rate(p) # NoneNum
EventFieldsPresent(ev) == ev_cost(ev) # NoneNum

C9_FailFast ==
    /\ pc = "error" => (data = <<>> /\ sim_objects = <<>>)
    /\ pc = "done" =>
          /\ \A i \in 1..Len(portfolio_data) : FieldsPresent(portfolio_data[i])
          /\ \A j \in 1..Len(life_events_data) : EventFieldsPresent(life_events_data[j])

\* C10: no step of a run changes the caller's portfolio records, life-event
\* records or parameter mapping.
C10_CallerUnchanged ==
    [][/\ portfolio_data' = portfolio_data
       /\ life_events_data' = life_events_data
       /\ simulation_params' = simulation_params]_vars

\* a finished run in which an event drew on an entity whose balance now
\* differs from the caller's record
C10_Witness ==
    /\ pc = "done"
    /\ ev_before # <<>>
    /\ \E i \in Items : sim_objects[i].balance # rec_bal(portfolio_data[i])

C11_AllColumns ==
    JustEmitted =>
        \A i \in Items :
            /\ sim_objects[i].name \in DOMAIN LastRow.bal
            /\ sim_objects[i].name \in DOMAIN LastRow.inc
            /\ FloatOk(LastRow.bal[sim_objects[i].name])
            /\ FloatOk(LastRow.inc[sim_objects[i].name])

----------------------------------------------------------------------------
(* Single method calls: Asset.project_year                                 *)

MaxCalls == 2              \* calls made on one object

\* the variables of run_simulation that a single method call does not use
NoRun ==
    /\ portfolio_data = <<>>
    /\ life_events_data = <<>>
    /\ user_age = 0
    /\ years_to_project = 0
    /\ today = FirstYear
    /\ current_year = 0
    /\ ev_i = 1
    /\ tier_i = 0
    /\ item_i = 1
    /\ future_cost = Zero
    /\ remaining_cost = Zero
    /\ ev_before = <<>>
    /\ gross_swr_base = Zero
    /\ swr_part = <<>>
    /\ data = <<>>
    /\ run_no = 1
    /\ first_data = <<>>
    /\ first_today = 0

run_only_vars ==
    <<portfolio_data, life_events_data, user_age, years_to_project, today,
      current_year, ev_i, tier_i, item_i, future_cost, remaining_cost, ev_before,
      gross_swr_base, swr_part, data, run_no, first_data, first_today>>

ProjectBalances == {Zero, Int2R(100), Int2R(10000)}
ProjectRates == {Zero, Rat(7, 100), Rat(-1, 2), One}
ProjectContributions == {Zero, Int2R(100), Int2R(1200)}
ProjectContribGrowths == {Zero, Rat(3, 100), Rat(1, 2)}

InitProjectYear ==
    /\ NoRun
    /\ pc = "project_year"
    /\ year = 0
    /\ \E B \in ProjectBalances, r \in ProjectRates, C \in ProjectContributions :
           sim_objects = <<Asset("e1", B, C, r, "Taxable", "Stock Market")>>
    /\ \E g \in ProjectContribGrowths : simulation_params = Params(Zero, g, TRUE, 65)
    /\ call_income = Zero
    /\ call_filing_status = "Single"
    /\ call_tax = Zero
    /\ self_old = <<>>
    /\ loop_count = 0

\* item.project_year(contrib_growth), as line 123 of logic.py calls it
ProjectYearCall ==
    /\ pc = "project_year"
    /\ year < MaxCalls
    /\ self_old' = sim_objects
    /\ sim_objects' = <<project_year(sim_objects[1], simulation_params.contrib_growth)>>
    /\ year' = year + 1
    /\ UNCHANGED <<pc, simulation_params, call_income, call_filing_status, call_tax,
                   loop_count>>
    /\ UNCHANGED run_only_vars

NextProjectYear == ProjectYearCall

SpecProjectYear == InitProjectYear /\ [][NextProjectYear]_vars

\* C12: one call of project_year(g) on balance B, rate r, contribution C
\* leaves contribution C*(1+g) and balance B + B*r + C*(1+g); growth is taken
\* on the balance before the contribution is added, and B = 10000, r = 0.07,
\* C = 1200, g = 0.03 gives contribution 1236 and balance 11936.
C12_ProjectYear ==
    (pc = "project_year" /\ year > 0) =>
        LET B == self_old[1].balance
            r == self_old[1].annual_growth_rate
            C == self_old[1].annual_contribution
            g == simulation_params.contrib_growth
            now == sim_objects[1]
        IN  /\ now.annual_contribution = RAdd(C, RMul(C, g))
            /\ now.balance = RAdd(RMul(B, RAdd(One, r)), RAdd(C, RMul(C, g)))
            /\ now.annual_growth_rate = r
            /\ (B = Int2R(10000) /\ r = Rat(7, 100) /\ C = Int2R(1200) /\ g = Rat(3, 100))
                   => (now.annual_contribution = Int2R(1236) /\ now.balance = Int2R(11936))

C12_Witness ==
    /\ pc = "project_year"
    /\ year = 1
    /\ self_old[1].balance = Int2R(10000)
    /\ self_old[1].annual_growth_rate = Rat(7, 100)
    /\ self_old[1].annual_contribution = Int2R(1200)
    /\ simulation_params.contrib_growth = Rat(3, 100)
    /\ sim_objects[1].annual_contribution = Int2R(1236)
    /\ sim_objects[1].balance = Int2R(11936)

----------------------------------------------------------------------------
(* Single method calls: Liability.pay_down_year, one loop iteration a step *)

\* (balance, annual_interest_rate, monthly_payment)
PayDownInputs ==
    ({Zero, Int2R(1000), Int2R(1200)} \X {Rat(12, 100)} \X {Int2R(500), Int2R(1300)})
    \cup ({Zero, Int2R(100), Int2R(1200)} \X {Zero}
              \X {Zero, Int2R(50), Int2R(100), Int2R(150)})
    \cup ({Int2R(100)} \X {Int2R(12)}
              \X {Int2R(100), Int2R(101), Int2R(150), Int2R(200)})

InitPayDown ==
    /\ NoRun
    /\ pc = "pay_down_idle"
    /\ year = 0
    /\ \E a \in PayDownInputs : sim_objects = <<Liability("e1", a[1], a[2], a[3])>>
    /\ simulation_params = Params(Zero, Zero, TRUE, 65)
    /\ call_income = Zero
    /\ call_filing_status = "Single"
    /\ call_tax = Zero
    /\ self_old = <<>>
    /\ loop_count = 0

\* item.pay_down_year() is called, as line 131 of logic.py does once a year
PayDownEnter ==
    /\ pc = "pay_down_idle"
    /\ year < MaxCalls
    /\ self_old' = sim_objects
    /\ loop_count' = 0
    /\ pc' = "pay_down_loop"
    /\ UNCHANGED <<sim_objects, year, simulation_params, call_income,
                   call_filing_status, call_tax>>
    /\ UNCHANGED run_only_vars

\* faulty variant: the loop does not break when the balance is paid off
PayDownMonthNoBreak ==
    /\ pc = "pay_down_loop"
    /\ loop_count < MonthsPerYear
    /\ LET self == sim_objects[1]
           interest == RMul(self.balance,
                            RDiv(self.annual_interest_rate, Int2R(MonthsPerYear)))
       IN  sim_objects' = <<[self EXCEPT !.balance =
                                RSub(RAdd(self.balance, interest), self.monthly_payment)]>>
    /\ loop_count' = loop_count + 1
    /\ UNCHANGED <<pc, year, simulation_params, call_income, call_filing_status,
                   call_tax, self_old>>
    /\ UNCHANGED run_only_vars

\* models.py:38-42, one iteration that does not break
PayDownMonth ==
    /\ pc = "pay_down_loop"
    /\ loop_count < MonthsPerYear
    /\ RGt(sim_objects[1].balance, Zero)
    /\ LET self == sim_objects[1]
           interest == RMul(self.balance,
                            RDiv(self.annual_interest_rate, Int2R(MonthsPerYear)))
       IN  sim_objects' = <<[self EXCEPT !.balance =
                                RSub(RAdd(self.balance, interest), self.monthly_payment)]>>
    /\ loop_count' = loop_count + 1
    /\ UNCHANGED <<pc, year, simulation_params, call_income, call_filing_status,
                   call_tax, self_old>>
    /\ UNCHANGED run_only_vars

\* models.py:38-39 and 43: the loop ends (12 iterations made, or break) and
\* a negative balance is set to 0
PayDownReturn ==
    /\ pc = "pay_down_loop"
    /\ loop_count = MonthsPerYear \/ RLe(sim_objects[1].balance, Zero)
    /\ sim_objects' = <<[sim_objects[1] EXCEPT !.balance =
                            IF RLt(sim_objects[1].balance, Zero) THEN Zero
                            ELSE sim_objects[1].balance]>>
    /\ year' = year + 1
    /\ pc' = "pay_down_idle"
    /\ UNCHANGED <<simulation_params, call_income, call_filing_status, call_tax,
                   self_old, loop_count>>
    /\ UNCHANGED run_only_vars

NextPayDown == PayDownEnter \/ PayDownMonth \/ PayDownReturn

SpecPayDown == InitPayDown /\ [][NextPayDown]_vars

PayDownReturned == pc = "pay_down_idle" /\ year > 0

\* the balance after k iterations of the loop on the liability the call began with
AfterMonths(k) ==
    pay_down_months(self_old[1].balance, self_old[1].annual_interest_rate,
                    self_old[1].monthly_payment, k)

\* C13: pay_down_year makes at most 12 monthly steps, each adding
\* balance * (rate / 12) and subtracting the payment, makes no step once the
\* balance is <= 0, and returns with the balance clamped to 0; a liability
\* whose balance is 0 is left at 0 by every later call; 1200 at 12% with a
\* payment of 1300 is at 0 after one monthly step.
C13_PayDown ==
    /\ loop_count <= MonthsPerYear
    /\ pc = "pay_down_loop" =>
          /\ sim_objects[1].balance = AfterMonths(loop_count)
          /\ \A k \in 0..(loop_count - 1) : RGt(AfterMonths(k), Zero)
          /\ loop_count > 0 =>
                sim_objects[1].balance =
                    RSub(RMul(AfterMonths(loop_count - 1),
                              RAdd(One, RDiv(self_old[1].annual_interest_rate, Int2R(12)))),
                         self_old[1].monthly_payment)
    /\ PayDownReturned =>
          /\ sim_objects[1] = pay_down_year(self_old[1])
          /\ RGe(sim_objects[1].balance, Zero)
          /\ \A k \in 0..(loop_count - 1) : RGt(AfterMonths(k), Zero)
          /\ (loop_count < MonthsPerYear => RLe(AfterMonths(loop_count), Zero))
          /\ (self_old[1].balance = Zero =>
                 (sim_objects[1].balance = Zero /\ loop_count = 0))
          /\ (/\ self_old[1].balance = Int2R(1200)
              /\ self_old[1].annual_interest_rate = Rat(12, 100)
              /\ self_old[1].monthly_payment = Int2R(1300))
                 => (loop_count = 1 /\ sim_objects[1].balance = Zero)

\* the second call on the 1200 / 0.12 / 1300 liability has returned
C13_Witness ==
    /\ PayDownReturned
    /\ year = 2
    /\ self_old[1].balance = Zero
    /\ self_old[1].annual_interest_rate = Rat(12, 100)
    /\ self_old[1].monthly_payment = Int2R(1300)
    /\ sim_objects[1].balance = Zero
    /\ loop_count = 0

----------------------------------------------------------------------------
(* Single function calls: calculate_progressive_tax                        *)

FilingStatuses == {"Single", "Married (Joint)"}

\* incomes below, at and above the deductions and every bracket bound
TaxIncomes ==
    {Int2R(n) : n \in {-1000, 0, 1, 14599, 14600, 14601, 20000, 26200, 26201, 29200,
                       29201, 50000, 52400, 61750, 100000, 115125, 123500, 206550,
                       230250, 258325, 413100, 516650, 623950, 623951, 700000,
                       760400, 760401, 1000000}}
    \cup {Rat(100001, 2), Rat(1460001, 100)}

InitTax ==
    /\ NoRun
    /\ pc = "tax_call"
    /\ year = 0
    /\ sim_objects = <<>>
    /\ simulation_params = Params(Zero, Zero, TRUE, 65)
    /\ call_income \in TaxIncomes
    /\ call_filing_status \in FilingStatuses
    /\ call_tax = Zero
    /\ self_old = <<>>
    /\ loop_count = 0

TaxCall ==
    /\ pc = "tax_call"
    /\ call_tax' = calculate_progressive_tax(call_income, call_filing_status)
    /\ pc' = "tax_returned"
    /\ UNCHANGED <<sim_objects, year, simulation_params, call_income,
                   call_filing_status, self_old, loop_count>>
    /\ UNCHANGED run_only_vars

NextTax == TaxCall

SpecTax == InitTax /\ [][NextTax]_vars

DeductionOf(status) == IF status = "Single" THEN SingleDeduction ELSE JointDeduction
BracketsOf(status) == IF status = "Single" THEN SingleBrackets ELSE JointBrackets

\* the part of the amount x that lies between lo and hi
SliceOf(x, lo, hi) == RMax(Zero, RSub(RMin(x, hi), lo))

\* rate times slice, summed over the brackets i..Len(brackets)
RECURSIVE SliceSum(_, _, _)
SliceSum(brackets, i, x) ==
    IF i > Len(brackets) THEN Zero
    ELSE LET lo == IF i = 1 THEN Zero ELSE Int2R(brackets[i - 1][2])
             hi == Int2R(brackets[i][2])
         IN  RAdd(RMul(Pct(brackets[i][1]), SliceOf(x, lo, hi)),
                  SliceSum(brackets, i + 1, x))

AboveLast(brackets, x) == RMax(Zero, RSub(x, Int2R(brackets[Len(brackets)][2])))

\* C14: calculate_progressive_tax returns 0 for income <= 0 and for income
\* not above the standard deduction (14600 Single, 29200 otherwise), and
\* otherwise the sum over the bracket table of rate times the part of
\* (income - deduction) inside the bracket, plus 0.37 of the part above the
\* last bound; tax(14600, Single) = 0 and tax(50000, Single) = 4016.
C14_Tax ==
    pc = "tax_returned" =>
        LET deduction == Int2R(DeductionOf(call_filing_status))
            brackets == BracketsOf(call_filing_status)
            taxable == RSub(call_income, deduction)
        IN  /\ RLe(call_income, Zero) => call_tax = Zero
            /\ RLe(call_income, deduction) => call_tax = Zero
            /\ RGt(call_income, deduction) =>
                   call_tax = RAdd(SliceSum(brackets, 1, taxable),
                                   RMul(Rat(37, 100), AboveLast(brackets, taxable)))
            /\ (call_filing_status = "Single" /\ call_income = Int2R(14600))
                   => call_tax = Zero
            /\ (call_filing_status = "Single" /\ call_income = Int2R(50000))
                   => call_tax = Int2R(4016)
            /\ (call_filing_status # "Single" /\ call_income = Int2R(29200))
                   => call_tax = Zero

C14_Witness ==
    /\ pc = "tax_returned"
    /\ call_filing_status = "Single"
    /\ call_income = Int2R(50000)
    /\ call_tax = Int2R(4016)

----------------------------------------------------------------------------
(* Order of the steps inside one simulated year                            *)

\* a life event is due at the current age
EventDue == \E j \in 1..Len(life_events_data) : Fires(life_events_data[j])

\* C15: the life-event withdrawals of a year are applied before that year's
\* growth: when the row of a year with an event is emitted, an asset that
\* had balance B when the event began and lost w to it has, for a year
\* y > 0, balance (B - w) + (B - w) * r + escalated contribution, which the
\* row shows in real terms; in year 0 the event is drawn at its un-inflated
\* cost and the balance stays B - w.
C15_EventsBeforeGrowth ==
    [][(data' # data /\ EventDue) =>
          LET new_row == data'[Len(data')]
              taken == [i \in Items |-> RSub(ev_before[i].balance, sim_objects[i].balance)]
              cost == ev_cost(life_events_data[ev_i - 1])
              inflation == RPow(RAdd(One, simulation_params.inflation_rate), year)
          IN  /\ Len(ev_before) = Len(sim_objects)
              /\ RSum(taken) = RSub(future_cost, remaining_cost)
              /\ future_cost = RMul(cost, inflation)
              /\ year = 0 => future_cost = cost
              /\ \A i \in Items :
                    IsAsset(i) =>
                       LET B == ev_before[i].balance
                           w == taken[i]
                           r == sim_objects[i].annual_growth_rate
                           C == sim_objects[i].annual_contribution
                           g == simulation_params.contrib_growth
                           kept == RSub(B, w)
                           grown == RAdd(RAdd(kept, RMul(kept, r)),
                                         RMul(C, RAdd(One, g)))
                           after == IF year > 0 THEN grown ELSE kept
                       IN  /\ sim_objects'[i].balance = after
                           /\ i = LastNamed(sim_objects, sim_objects[i].name) =>
                                 new_row.bal[sim_objects[i].name] = RDiv(after, inflation)]_vars

\* the row of a later year has been emitted after an event took part of an
\* asset that grows
C15_Witness ==
    /\ JustEmitted
    /\ year >= 2
    /\ Len(ev_before) = Len(sim_objects)
    /\ \E j \in 1..Len(life_events_data) :
           ev_age(life_events_data[j]) = Int2R(LastRow.Age)
    /\ RGt(future_cost, Zero)
    /\ \E i \in Items :
          /\ IsAsset(i)
          /\ RGt(sim_objects[i].annual_growth_rate, Zero)
          /\ RGt(ev_before[i].balance, future_cost)
          /\ sim_objects[i].balance =
                 RAdd(RMul(RSub(ev_before[i].balance, future_cost),
                           RAdd(One, sim_objects[i].annual_growth_rate)),
                      sim_objects[i].annual_contribution)

----------------------------------------------------------------------------
(* Records whose numeric fields are 0                                      *)

\* the field holds a number under one of its two key spellings
NumberUnder(lower, title) == FloatOk(lower) \/ FloatOk(title)

StructurallyValid(p) ==
    /\ NumberUnder(p.balance, p.Balance)
    /\ NumberUnder(p.rate, p.Rate)
    /\ NumberUnder(p.monthly, p.Monthly)

EventStructurallyValid(ev) ==
    /\ NumberUnder(ev.age, ev.Age)
    /\ NumberUnder(ev.cost, ev.Cost)

\* C16: a run whose records all hold a number in every numeric field, 0
\* included, under either key spelling, never raises.
C16_ZeroAccepted ==
    (/\ \A i \in 1..Len(portfolio_data) : StructurallyValid(portfolio_data[i])
     /\ \A j \in 1..Len(life_events_data) : EventStructurallyValid(life_events_data[j]))
        => pc # "error"

----------------------------------------------------------------------------
(* Net passive income under the progressive option                         *)

\* C17: the progressive tax on a gross income >= 0 lies between 0 and that
\* income, so in every emitted row of a run with the progressive option the
\* net passive income is >= 0 and <= the gross passive income (withdrawal
\* base times safe withdrawal rate).
C17_NetWithinGross ==
    /\ (pc = "tax_returned" /\ RGe(call_income, Zero)) =>
           (RGe(call_tax, Zero) /\ RLe(call_tax, call_income))
    /\ (JustEmitted /\ simulation_params.use_progressive) =>
           LET gross_passive_income == RMul(gross_swr_base, simulation_params.swr)
           IN  /\ RGe(LastRow.Passive_Income, Zero)
               /\ RLe(LastRow.Passive_Income, gross_passive_income)

====
